---- MODULE Spec2Model ----
(***************************************************************************)
(* The realtime session relay of server.py: the socket.io handlers         *)
(* connect, disconnect and msg working on the session table __sessions.    *)
(*                                                                         *)
(* Under Spec every handler is one atomic action; SpecAsync adds the       *)
(* schedule in which the msg handler is suspended at the await before its  *)
(* forced disconnect and resumed later.  The outbound sends, the task      *)
(* submission and the forced disconnect of a handler are recorded, in      *)
(* order, in `effects`; an exception that escapes the handler is recorded  *)
(* in `err`.  `suspended` counts, for each id, the msg handlers of that    *)
(* sender that wait to go on with sio.disconnect(sid).  `last`, `pre`, `preOpen` and `viewers` are history           *)
(* variables: the event just handled, the session table and the open       *)
(* connections before it, and the ids that connected with an origin        *)
(* marker and were not disconnected since, each with the HTTP_HOST of      *)
(* that connect.  When a handler has returned,                             *)
(* the event loop takes the next event (next_event), which forgets the     *)
(* record of the handler that has finished.                                *)
(***************************************************************************)
EXTENDS Integers, Sequences, FiniteSets, TLC

VARIABLES sessions, open, effects, err, last, pre, preOpen, viewers, suspended

vars == <<sessions, open, effects, err, last, pre, preOpen, viewers, suspended>>

-----------------------------------------------------------------------------
(* Bounds and input domains *)

\* Number of connection ids (sid) the transport hands out.
MaxConn == 3

Ids == 1..MaxConn

\* Number of msg handlers that can be suspended at the same time, and the
\* number of connection ids in the schedules with suspended handlers.
MaxSuspended == 1
MaxAsyncConn == 2

\* A key/worker slot that holds no id: msg.get('key') gives None, the
\* connect data has no HTTP_KEY, the session has no 'simulation' entry.
NoId == 0

\* Values of data.get('HTTP_HOST'); "None" is the missing header as
\* str.format() renders it.
Hosts == {"h1", "None"}

\* The HTTP_HOST values tried for a connection id: both for the first id,
\* one for the others, so that sessions with different hosts coexist and an
\* id can reconnect with a different host, at a fraction of the states.
HostsOf(sid) == IF sid = 1 THEN Hosts ELSE {"h1"}

\* A dict entry that is not there, and the JSON null.
Missing == [shape |-> "missing"]
NoneVal == [shape |-> "None"]

\* Opaque payloads relayed or passed on as simulation parameters.
Payloads == {[shape |-> "val", v |-> "p1"], [shape |-> "val", v |-> "p2"]}

\* The {lng, lat} dicts of a mouse click.
LngLats == {[shape |-> "lnglat", lng |-> 1, lat |-> 2],
            [shape |-> "lnglat", lng |-> 2, lat |-> 1]}

\* The nested dict of a control message: {type, action, data}.  The string
\* "None" is what .get() gives for an entry that is not there.
ControlDict(t, a, d) == [shape |-> "dict", type |-> t, action |-> a, data |-> d]

ControlDicts ==
    {ControlDict("mouse", "click", d) : d \in LngLats \cup {Missing}}
    \cup {ControlDict("simulation", "start", d) : d \in {Missing, [shape |-> "val", v |-> "p1"]}}
    \cup {ControlDict("simulation", a, Missing) : a \in {"stop", "closedown", "finish"}}
    \cup {ControlDict("zoom", "click", Missing)}

Envelope(t, k, d) == [type |-> t, key |-> k, data |-> d]

\* The inbound envelopes: relayed results (with and without a data entry),
\* control messages (with a dict or with no data entry, where the default {}
\* applies), a control message whose data entry is null, and envelopes of
\* an unknown type or with no type.  The last three kinds are handled
\* without reading the key.
Messages ==
    {Envelope(t, k, d) : t \in {"data", "metadata"}, k \in Ids \cup {NoId},
                         d \in Payloads}
    \cup {Envelope("data", k, Missing) : k \in Ids \cup {NoId}}
    \cup {Envelope("control", k, d) : k \in Ids \cup {NoId},
                         d \in ControlDicts \cup {Missing}}
    \cup {Envelope("control", NoId, NoneVal),
          Envelope("status", NoId, Missing), Envelope("None", NoId, Missing)}

NoMsg == Envelope("None", NoId, Missing)

-----------------------------------------------------------------------------
(* Helpers of the handlers *)

\* A host stored as reported, without the scheme.
HostUrl_Raw(h) == h

\* 'http://{}'.format(data.get('HTTP_HOST'))
HostUrl(h) == "http://" \o h

\* dict.get(key, default) on an entry
Get(entry, default) == IF entry = Missing THEN default ELSE entry

\* A feature collection with the coordinates in the order lat, lng.
FeatureCollection_Swapped(lng_lat) ==
    [type |-> "FeatureCollection",
     features |-> << [type |-> "Feature",
                      geometry |-> [type |-> "Point",
                                    coordinates |-> <<lng_lat.lat, lng_lat.lng>>]] >>]

\* The geojson dict built for a mouse click.
FeatureCollection(lng_lat) ==
    [type |-> "FeatureCollection",
     features |-> << [type |-> "Feature",
                      geometry |-> [type |-> "Point",
                                    coordinates |-> <<lng_lat.lng, lng_lat.lat>>]] >>]

\* json.dumps of a list of numbers, of a feature, and of the geojson dict
\* (keys in insertion order, ", " and ": " as separators).
RECURSIVE DumpNumbers(_)
DumpNumbers(xs) ==
    IF xs = <<>> THEN ""
    ELSE IF Len(xs) = 1 THEN ToString(Head(xs))
    ELSE ToString(Head(xs)) \o ", " \o DumpNumbers(Tail(xs))

DumpFeature(f) ==
    "{\"type\": \"" \o f.type \o "\", \"geometry\": {\"type\": \""
    \o f.geometry.type \o "\", \"coordinates\": ["
    \o DumpNumbers(f.geometry.coordinates) \o "]}}"

RECURSIVE DumpFeatures(_)
DumpFeatures(fs) ==
    IF fs = <<>> THEN ""
    ELSE IF Len(fs) = 1 THEN DumpFeature(Head(fs))
    ELSE DumpFeature(Head(fs)) \o ", " \o DumpFeatures(Tail(fs))

JsonDumps(geojson) ==
    "{\"type\": \"" \o geojson.type \o "\", \"features\": ["
    \o DumpFeatures(geojson.features) \o "]}"

\* An emit with no room: socket.io sends it to every connection.
send_message_Broadcast(msg_type, data, room) ==
    [kind |-> "emit", room |-> NoId, type |-> msg_type, data |-> data]

\* sio.emit('msg', {'type': msg_type, 'data': data}, room=room)
send_message(msg_type, data, room) ==
    [kind |-> "emit", room |-> room, type |-> msg_type, data |-> data]

\* celeryapp.app.send_task('simulations.transportation.run', kwargs=...)
send_task(host, key, params) ==
    [kind |-> "task", name |-> "simulations.transportation.run",
     host |-> host, key |-> key, params |-> params]

\* A removal that also drops the sessions whose worker is sid.
Removed_WithAttached(table, sid) ==
    [k \in {j \in DOMAIN table \ {sid} : table[j].simulation # sid} |-> table[k]]

\* The session table without the entry of sid (del __sessions[sid]).
Removed(table, sid) == [k \in DOMAIN table \ {sid} |-> table[k]]

\* A disconnect handler that leaves the session in place.
DisconnectSessions_Keep(table, sid) == table

\* A disconnect handler that also forgets sid where it is the worker.
DisconnectSessions_Detach(table, sid) ==
    [k \in DOMAIN table \ {sid} |->
        IF table[k].simulation = sid
        THEN [table[k] EXCEPT !.simulation = NoId]
        ELSE table[k]]

\* The disconnect handler's effect on the session table.
DisconnectSessions(table, sid) ==
    IF sid \in DOMAIN table THEN Removed(table, sid) ELSE table

\* An attach that keeps the worker already recorded.
Attach_FirstWins(table, key, sid) ==
    IF table[key].simulation = NoId
    THEN [table EXCEPT ![key].simulation = sid]
    ELSE table

\* __sessions[key]['simulation'] = sid
Attach(table, key, sid) == [table EXCEPT ![key].simulation = sid]

\* A registration that replaces the session sid already has.
Register_Overwrite(table, sid, host) ==
    (sid :> [host |-> HostUrl(host), simulation |-> NoId]) @@ table

\* __sessions[sid] = {'host': ...} unless sid already has a session
Register(table, sid, host) ==
    IF sid \notin DOMAIN table
    THEN table @@ (sid :> [host |-> HostUrl(host), simulation |-> NoId])
    ELSE table

\* The history of viewers without sid, once sid is disconnected.
Forget(hist, sid) == [k \in DOMAIN hist \ {sid} |-> hist[k]]

Event(kind, sid, origin, key, host, m) ==
    [kind |-> kind, sid |-> sid, origin |-> origin, key |-> key,
     host |-> host, msg |-> m]

\* No handler is running or has just returned.
Idle == Event("idle", NoId, FALSE, NoId, "None", NoMsg)

\* No msg handler waits at an await.
NoneSuspended == [k \in Ids |-> 0]

\* The number of msg handlers that wait at an await.
Pending(susp) ==
    Cardinality({ki \in Ids \X (1..MaxSuspended) : ki[2] <= susp[ki[1]]})

-----------------------------------------------------------------------------
Init ==
    /\ sessions = <<>>
    /\ open = {}
    /\ effects = <<>>
    /\ err = "none"
    /\ last = Idle
    /\ pre = <<>>
    /\ preOpen = {}
    /\ viewers = <<>>
    /\ suspended = NoneSuspended

-----------------------------------------------------------------------------
(* The msg handler's routing, as a function of the session table, the      *)
(* sender and the envelope: the effects it produces, in order, and the     *)
(* exception that ends it, if any.                                         *)

Outcome(effs, e) == [effects |-> effs, err |-> e]

Dropped == Outcome(<<>>, "none")

\* A relay that serves only the worker recorded in the keyed session.
RelayData_AttachedOnly(table, sid, m) ==
    IF m.key \in DOMAIN table /\ table[m.key].simulation = sid
    THEN IF m.data = Missing
         THEN Outcome(<<>>, "KeyError")
         ELSE Outcome(<<send_message(m.type, m.data, m.key)>>, "none")
    ELSE Dropped

\* A relay that answers the sender instead of the session's viewer.
RelayData_ToSender(table, sid, m) ==
    IF m.key \in DOMAIN table /\ m.data # Missing
    THEN Outcome(<<send_message(m.type, m.data, sid)>>, "none")
    ELSE Dropped

\* msg.get('type') in ['data', 'metadata']: msg['data'] raises KeyError
\* when the envelope has no data entry.
RelayData(table, sid, m) ==
    IF m.key \in DOMAIN table
    THEN IF m.data = Missing
         THEN Outcome(<<>>, "KeyError")
         ELSE Outcome(<<send_message(m.type, m.data, m.key)>>, "none")
    ELSE Dropped

\* A closedown that disconnects the worker before it tells the viewer.
WorkerControl_DisconnectFirst(table, sid, m, msg_data) ==
    IF msg_data.type = "simulation" /\ msg_data.action = "closedown"
    THEN Outcome(<<[kind |-> "disconnect", sid |-> sid],
                   send_message("control",
                                [type |-> "simulation", action |-> "stopped"],
                                m.key)>>, "none")
    ELSE Dropped

\* control, msg.get('key') in __sessions  ==> message from worker
WorkerControl(table, sid, m, msg_data) ==
    IF msg_data.type = "simulation" /\ msg_data.action = "closedown"
    THEN Outcome(<<send_message("control",
                                [type |-> "simulation", action |-> "stopped"],
                                m.key),
                   [kind |-> "disconnect", sid |-> sid]>>, "none")
    ELSE Dropped

\* control_type == 'mouse': lng_lat['lng'] raises TypeError when the data
\* entry is not a {lng, lat} dict.
MouseControl(sid, msg_data) ==
    IF msg_data.action = "click"
    THEN LET lng_lat == Get(msg_data.data, NoneVal)
         IN  IF lng_lat.shape = "lnglat"
             THEN Outcome(<<send_message("data",
                               [type |-> "geojson",
                                data |-> JsonDumps(FeatureCollection(lng_lat))],
                               sid)>>, "none")
             ELSE Outcome(<<>>, "TypeError")
    ELSE Dropped

\* A stop that is forwarded without looking for an attached worker.
SimulationControl_StopUnchecked(session, sid, msg_data) ==
    IF msg_data.action = "start"
    THEN Outcome(<<send_task(session.host, sid, Get(msg_data.data, NoneVal))>>, "none")
    ELSE IF msg_data.action = "stop"
    THEN Outcome(<<send_message("control",
                       [type |-> "simulation", action |-> "stop"],
                       session.simulation)>>, "none")
    ELSE Dropped

\* control_type == 'simulation'
SimulationControl(session, sid, msg_data) ==
    IF msg_data.action = "start"
    THEN Outcome(<<send_task(session.host, sid, Get(msg_data.data, NoneVal))>>, "none")
    ELSE IF msg_data.action = "stop" /\ session.simulation # NoId
    THEN Outcome(<<send_message("control",
                       [type |-> "simulation", action |-> "stop"],
                       session.simulation)>>, "none")
    ELSE Dropped

\* control, sid in __sessions  ==> message from browser
ViewerControl(table, sid, m, msg_data) ==
    IF msg_data.type = "mouse"
    THEN MouseControl(sid, msg_data)
    ELSE IF msg_data.type = "simulation"
    THEN SimulationControl(table[sid], sid, msg_data)
    ELSE Dropped

\* A router that looks at the sender before it looks at the key.
RouteControl_SenderFirst(table, sid, m) ==
    LET msg_data == Get(m.data, ControlDict("None", "None", Missing))
    IN  IF msg_data = NoneVal
        THEN Outcome(<<>>, "AttributeError")
        ELSE IF sid \in DOMAIN table
        THEN ViewerControl(table, sid, m, msg_data)
        ELSE IF m.key \in DOMAIN table
        THEN WorkerControl(table, sid, m, msg_data)
        ELSE Dropped

\* msg.get('type') == 'control': msg.get('data', {}) is None for a null
\* data entry, and None.get raises AttributeError.
RouteControl(table, sid, m) ==
    LET msg_data == Get(m.data, ControlDict("None", "None", Missing))
    IN  IF msg_data = NoneVal
        THEN Outcome(<<>>, "AttributeError")
        ELSE IF m.key \in DOMAIN table
        THEN WorkerControl(table, sid, m, msg_data)
        ELSE IF sid \in DOMAIN table
        THEN ViewerControl(table, sid, m, msg_data)
        ELSE Dropped

Route(table, sid, m) ==
    IF m.type \in {"data", "metadata"}
    THEN RelayData(table, sid, m)
    ELSE IF m.type = "control"
    THEN RouteControl(table, sid, m)
    ELSE Dropped

\* The handler called sio.disconnect(sid).
ForcedDisconnect(effs) ==
    \E i \in 1..Len(effs) : effs[i].kind = "disconnect"

-----------------------------------------------------------------------------
(* The events *)

\* A connect whose data has neither marker, or whose key has a session, or
\* an origin marker, returns normally; a key with no session raises.
ConnectRaises(table, origin, key) ==
    ~origin /\ key # NoId /\ key \notin DOMAIN table

ConnectSessions(table, sid, origin, key, host) ==
    IF origin
    THEN Register(table, sid, host)
    ELSE IF key # NoId /\ key \in DOMAIN table
    THEN Attach(table, key, sid)
    ELSE table

\* A msg handler whose stop clears the worker of the sender's session.
MsgSessions_StopClears(table, sid, m, forced) ==
    IF forced
    THEN DisconnectSessions(table, sid)
    ELSE IF /\ m.type = "control" /\ m.data = ControlDict("simulation", "stop", Missing)
            /\ m.key \notin DOMAIN table /\ sid \in DOMAIN table
    THEN [table EXCEPT ![sid].simulation = NoId]
    ELSE table

\* The msg handler's effect on the session table: it writes nothing itself;
\* sio.disconnect(sid) runs the disconnect handler for sid.
MsgSessions(table, sid, m, forced) ==
    IF forced THEN DisconnectSessions(table, sid) ELSE table

\* connect(sid, data): data has HTTP_ORIGIN iff origin, HTTP_KEY = key
\* unless key is NoId, HTTP_HOST = host.  When the handler raises, the
\* transport either refuses the connection or keeps it.
connect_handler(sid, origin, key, host) ==
    /\ last = Idle
    /\ sessions' = ConnectSessions(sessions, sid, origin, key, host)
    /\ IF ConnectRaises(sessions, origin, key)
       THEN /\ err' = "KeyError"
            /\ \E kept \in BOOLEAN : open' = IF kept THEN open \cup {sid} ELSE open
       ELSE /\ err' = "none"
            /\ open' = open \cup {sid}
    /\ effects' = <<>>
    /\ viewers' = IF origin /\ sid \notin DOMAIN viewers
                  THEN viewers @@ (sid :> host)
                  ELSE viewers
    /\ last' = Event("connect", sid, origin, key, host, NoMsg)
    /\ pre' = sessions
    /\ preOpen' = open
    /\ UNCHANGED suspended

\* The transport reports a connect for an id that is not in use.
connect(sid, origin, key, host) ==
    /\ sid \notin open
    /\ connect_handler(sid, origin, key, host)

\* disconnect(sid)
disconnect(sid) ==
    /\ last = Idle
    /\ sid \in open
    /\ sessions' = DisconnectSessions(sessions, sid)
    /\ open' = open \ {sid}
    /\ effects' = <<>>
    /\ err' = "none"
    /\ viewers' = Forget(viewers, sid)
    /\ last' = Event("disconnect", sid, FALSE, NoId, "None", NoMsg)
    /\ pre' = sessions
    /\ preOpen' = open
    /\ UNCHANGED suspended

\* msg(sid, msg); sio.disconnect(sid) runs the disconnect handler for sid.
msg(sid, m) ==
    /\ last = Idle
    /\ sid \in open
    /\ LET r == Route(sessions, sid, m)
           forced == ForcedDisconnect(r.effects)
       IN  /\ effects' = r.effects
           /\ err' = r.err
           /\ sessions' = MsgSessions(sessions, sid, m, forced)
           /\ open' = IF forced THEN open \ {sid} ELSE open
           /\ viewers' = IF forced THEN Forget(viewers, sid) ELSE viewers
    /\ last' = Event("msg", sid, FALSE, NoId, "None", m)
    /\ pre' = sessions
    /\ preOpen' = open
    /\ UNCHANGED suspended

\* The handler has returned: the event loop is ready for the next event.
next_event ==
    /\ last # Idle
    /\ last' = Idle
    /\ effects' = <<>>
    /\ err' = "none"
    /\ pre' = <<>>
    /\ preOpen' = {}
    /\ UNCHANGED <<sessions, open, viewers, suspended>>

Next ==
    \/ \E sid \in Ids, origin \in BOOLEAN, key \in Ids \cup {NoId} :
          \E host \in HostsOf(sid) : connect(sid, origin, key, host)
    \/ \E sid \in Ids : disconnect(sid)
    \/ \E sid \in Ids, m \in Messages : msg(sid, m)
    \/ next_event

Spec == Init /\ [][Next]_vars

-----------------------------------------------------------------------------
(* The handlers are coroutines of one event loop: a handler runs without   *)
(* interruption up to an await, where the loop may run the handlers of     *)
(* other events before it resumes the coroutine.  connect and disconnect   *)
(* have no await.  In msg every await but one is the last statement of its *)
(* path, where a suspension changes nothing; the await of the 'stopped'    *)
(* send is followed by sio.disconnect(sid).  msg_await is the msg handler  *)
(* suspended there, msg_resume is its continuation.                        *)

\* A segment that goes on to the forced disconnect.
BeforeAwait_Whole(effs) == effs

\* What the handler has done when it is suspended before sio.disconnect.
BeforeAwait(effs) ==
    SubSeq(effs, 1, (CHOOSE i \in 1..Len(effs) : effs[i].kind = "disconnect") - 1)

\* msg(sid, msg) up to `await __send_message(... 'stopped' ...)`, suspended
\* there.
msg_await(sid, m) ==
    /\ last = Idle
    /\ sid \in open
    /\ Pending(suspended) < MaxSuspended
    /\ LET r == Route(sessions, sid, m)
       IN  /\ ForcedDisconnect(r.effects)
           /\ effects' = BeforeAwait(r.effects)
           /\ err' = r.err
    /\ suspended' = [suspended EXCEPT ![sid] = @ + 1]
    /\ last' = Event("suspend", sid, FALSE, NoId, "None", m)
    /\ pre' = sessions
    /\ preOpen' = open
    /\ UNCHANGED <<sessions, open, viewers>>

\* The suspended handler goes on: `await sio.disconnect(sid)`, which runs
\* the disconnect handler when sid is a connection and does nothing when
\* it is not.
msg_resume(sid) ==
    /\ last = Idle
    /\ suspended[sid] > 0
    /\ suspended' = [suspended EXCEPT ![sid] = @ - 1]
    /\ IF sid \in open
       THEN /\ effects' = <<[kind |-> "disconnect", sid |-> sid]>>
            /\ sessions' = DisconnectSessions(sessions, sid)
            /\ open' = open \ {sid}
            /\ viewers' = Forget(viewers, sid)
       ELSE /\ effects' = <<>>
            /\ UNCHANGED <<sessions, open, viewers>>
    /\ err' = "none"
    /\ last' = Event("resume", sid, FALSE, NoId, "None", NoMsg)
    /\ pre' = sessions
    /\ preOpen' = open

\* The connection ids and the envelopes of the schedules with suspended
\* handlers.
AsyncIds == 1..MaxAsyncConn

AsyncMessages == {m \in Messages : m.key \in AsyncIds \cup {NoId}}

NextAsync ==
    \/ \E sid \in AsyncIds, origin \in BOOLEAN, key \in AsyncIds \cup {NoId} :
          \E host \in HostsOf(sid) : connect(sid, origin, key, host)
    \/ \E sid \in AsyncIds : disconnect(sid)
    \/ \E sid \in AsyncIds, m \in AsyncMessages : msg(sid, m)
    \/ \E sid \in AsyncIds, m \in AsyncMessages : msg_await(sid, m)
    \/ \E sid \in AsyncIds : msg_resume(sid)
    \/ next_event

SpecAsync == Init /\ [][NextAsync]_vars

-----------------------------------------------------------------------------
(* The connect handler as a function of the session table: it is applied   *)
(* once to every session table of the bounded shape and every connect      *)
(* data, also for an id that has a session already, which the transport    *)
(* never reports while it keeps ids unique among open connections.         *)

SessionsOf(k) ==
    [host : {HostUrl(h) : h \in HostsOf(k)}, simulation : Ids \cup {NoId}]

Tables ==
    UNION { {t \in [D -> UNION {SessionsOf(k) : k \in Ids}] :
                \A k \in D : t[k] \in SessionsOf(k)} : D \in SUBSET Ids }

InitConnect ==
    /\ sessions \in Tables
    /\ open = DOMAIN sessions
    /\ effects = <<>>
    /\ err = "none"
    /\ last = Idle
    /\ pre = <<>>
    /\ preOpen = {}
    /\ viewers = [k \in DOMAIN sessions |->
                    CHOOSE h \in Hosts : HostUrl(h) = sessions[k].host]
    /\ suspended = NoneSuspended

NextConnect ==
    \E sid \in Ids, origin \in BOOLEAN, key \in Ids \cup {NoId} :
       \E host \in HostsOf(sid) : connect_handler(sid, origin, key, host)

SpecConnect == InitConnect /\ [][NextConnect]_vars

TypeOK ==
    /\ open \subseteq Ids
    /\ DOMAIN sessions \subseteq Ids
    /\ \A k \in DOMAIN sessions :
          /\ sessions[k].host \in {HostUrl(h) : h \in Hosts}
          /\ sessions[k].simulation \in Ids \cup {NoId}
    /\ err \in {"none", "KeyError", "TypeError", "AttributeError"}
    /\ suspended \in [Ids -> 0..MaxSuspended]
    /\ Pending(suspended) <= MaxSuspended

-----------------------------------------------------------------------------
(* Shorthands for the event just handled *)

Connected == last.kind = "connect"
Disconnected == last.kind = "disconnect"
Received == last.kind = "msg"

\* A connect with a correlation key and no origin marker.
WorkerConnect == Connected /\ ~last.origin /\ last.key # NoId

\* The handler left the session table as it found it.
StoreUnchanged == sessions = pre

-----------------------------------------------------------------------------
(* C1: a session keyed V exists if and only if V connected with an origin  *)
(* marker and was not disconnected since: the sessions are exactly the     *)
(* ids in the history of viewers; the id of a connect with origin had no   *)
(* session before the connect and has one after it; the id of a            *)
(* disconnect, requested by the client or forced by the relay, has none.   *)
C1_SessionIffViewerConnected ==
    /\ DOMAIN sessions = DOMAIN viewers
    /\ (Connected /\ last.origin) =>
          (last.sid \notin DOMAIN pre /\ last.sid \in DOMAIN sessions)
    /\ Disconnected => last.sid \notin DOMAIN sessions
    /\ (Received /\ ForcedDisconnect(effects)) => last.sid \notin DOMAIN sessions

\* A viewer's disconnect removed its session while another viewer's stays.
C1_Witness ==
    /\ Disconnected
    /\ last.sid \in DOMAIN pre
    /\ last.sid \notin DOMAIN sessions
    /\ sessions # <<>>

(* C2: a worker connect with key K records the connecting id as the worker *)
(* of the session keyed K if and only if that session exists: when it      *)
(* does, the session's worker is the connecting id whatever was recorded   *)
(* before, the connect is not rejected and nothing else changes; when it   *)
(* does not, no session is changed.  A session holds one worker id.        *)
C2_AttachLastWriterWins ==
    /\ \A k \in DOMAIN sessions : sessions[k].simulation \in Ids \cup {NoId}
    /\ WorkerConnect =>
          IF last.key \in DOMAIN pre
          THEN /\ DOMAIN sessions = DOMAIN pre
               /\ sessions[last.key].simulation = last.sid
               /\ sessions[last.key].host = pre[last.key].host
               /\ \A k \in DOMAIN pre \ {last.key} : sessions[k] = pre[k]
               /\ err = "none"
               /\ last.sid \in open
          ELSE StoreUnchanged

\* A second worker attached to a session that recorded another worker.
C2_Witness ==
    /\ WorkerConnect
    /\ last.key \in DOMAIN pre
    /\ pre[last.key].simulation \notin {NoId, last.sid}
    /\ sessions[last.key].simulation = last.sid

(* C3: a worker connect whose key matches no session is a silent no-op:    *)
(* the handler raises nothing, the session table is unchanged and the      *)
(* connection stays open.                                                  *)
C3_OrphanAttachSilent ==
    (WorkerConnect /\ last.key \notin DOMAIN pre) =>
        (err = "none" /\ StoreUnchanged /\ last.sid \in open)

-----------------------------------------------------------------------------
(* Shorthands for the message just handled *)

Msg == last.msg

\* The message is a control message whose nested dict has type t, action a.
IsControl(t, a) ==
    /\ Received
    /\ Msg.type = "control"
    /\ Msg.data.shape = "dict"
    /\ Msg.data.type = t
    /\ Msg.data.action = a

\* The sender's own id identified a session when the message arrived.
SenderIsViewer == last.sid \in DOMAIN pre

\* The message's key identified a session when the message arrived.
KeyLive == Msg.key \in DOMAIN pre

\* Nothing was sent, submitted or disconnected, nothing raised, nothing changed.
SilentlyDropped ==
    effects = <<>> /\ err = "none" /\ StoreUnchanged /\ open = preOpen

StoppedNotice == [type |-> "simulation", action |-> "stopped"]
StopRequest == [type |-> "simulation", action |-> "stop"]

C5_StopOnlyToAttachedWorker ==
    (IsControl("simulation", "stop") /\ SenderIsViewer)
    => /\ Len(effects) <= 1
       /\ \A i \in 1..Len(effects) :
             /\ effects[i].kind = "emit"
             /\ effects[i].type = "control"
             /\ effects[i].data = StopRequest
             /\ effects[i].room = pre[last.sid].simulation
             /\ effects[i].room # NoId
       /\ err = "none"
       /\ StoreUnchanged
       /\ pre[last.sid].simulation = NoId => effects = <<>>

\* A viewer's stop was forwarded to its attached worker.
C5_Witness ==
    /\ IsControl("simulation", "stop")
    /\ SenderIsViewer
    /\ Len(effects) = 1
    /\ effects[1].room = pre[last.sid].simulation

(* C6: a control/simulation/closedown with key V from the worker recorded  *)
(* in V's session sends exactly one control/simulation/stopped to V, then  *)
(* disconnects the worker; the session keyed V is still there, unchanged.  *)
C6_ClosedownStopsThenDisconnects ==
    ( /\ IsControl("simulation", "closedown")
      /\ KeyLive
      /\ pre[Msg.key].simulation = last.sid )
    => /\ effects = << [kind |-> "emit", room |-> Msg.key,
                        type |-> "control", data |-> StoppedNotice],
                       [kind |-> "disconnect", sid |-> last.sid] >>
       /\ last.sid \notin open
       /\ Msg.key \in DOMAIN sessions
       /\ sessions[Msg.key] = pre[Msg.key]

\* The attached worker closed down and its viewer's session remains.
C6_Witness ==
    /\ IsControl("simulation", "closedown")
    /\ KeyLive
    /\ pre[Msg.key].simulation = last.sid
    /\ Len(effects) = 2
    /\ last.sid \in preOpen \ open
    /\ Msg.key \in DOMAIN sessions

\* The message is a mouse click that carries {lng, lat}.
IsClick ==
    IsControl("mouse", "click") /\ Msg.data.data.shape = "lnglat"

\* Exactly one outbound message: the data/geojson echo to the sender, with
\* one Point feature at [lng, lat]; nothing else happened.
ClickEchoed ==
    /\ effects = << [kind |-> "emit", room |-> last.sid, type |-> "data",
                     data |-> [type |-> "geojson",
                               data |-> JsonDumps(
                                  [type |-> "FeatureCollection",
                                   features |-> << [type |-> "Feature",
                                       geometry |-> [type |-> "Point",
                                           coordinates |-> <<Msg.data.data.lng,
                                                             Msg.data.data.lat>>]] >>])]] >>
    /\ err = "none"
    /\ StoreUnchanged
    /\ open = preOpen

(* C7 as claimed: every mouse/click with {lng, lat} from a viewer that     *)
(* owns a session is echoed to that viewer as one data/geojson message     *)
(* with one Point feature at [lng, lat], and nothing else happens.         *)
C7_ClickEchoed_AnyKey ==
    (IsClick /\ SenderIsViewer) => ClickEchoed

(* C7 as amended: the same, for a click whose key field names no session.  *)
C7_ClickEchoed ==
    (IsClick /\ SenderIsViewer /\ ~KeyLive) => ClickEchoed

\* A viewer with an attached worker clicked and got its echo.
C7_Witness ==
    /\ IsClick
    /\ SenderIsViewer
    /\ ~KeyLive
    /\ pre[last.sid].simulation # NoId
    /\ Len(effects) = 1
    /\ effects[1].room = last.sid

\* Exactly one task submission, with the sender's id as key, the host of
\* the sender's connect as http:// url and the nested data as params (None
\* when there is none); nothing sent, nothing changed.
StartSubmitted ==
    /\ effects = << [kind |-> "task", name |-> "simulations.transportation.run",
                     host |-> "http://" \o viewers[last.sid],
                     key |-> last.sid,
                     params |-> IF Msg.data.data = Missing
                                THEN NoneVal ELSE Msg.data.data] >>
    /\ effects[1].host = pre[last.sid].host
    /\ err = "none"
    /\ StoreUnchanged
    /\ open = preOpen

(* C8 as claimed: every control/simulation/start from a viewer that owns a *)
(* session submits exactly one task with key V, the host stored at V's     *)
(* connect and the caller's params, sends nothing and changes no session.  *)
C8_StartSubmitted_AnyKey ==
    (IsControl("simulation", "start") /\ SenderIsViewer) => StartSubmitted

(* C8 as amended: the same, for a start whose key field names no session.  *)
C8_StartSubmitted ==
    (IsControl("simulation", "start") /\ SenderIsViewer /\ ~KeyLive)
    => StartSubmitted

\* A viewer that already has a worker attached started a simulation with
\* params, while another session with another host exists.
C8_Witness ==
    /\ IsControl("simulation", "start")
    /\ SenderIsViewer
    /\ ~KeyLive
    /\ Msg.data.data # Missing
    /\ pre[last.sid].simulation # NoId
    /\ Len(effects) = 1
    /\ \E k \in DOMAIN pre : pre[k].host # pre[last.sid].host

\* A control message whose data entry is a dict, or is not there ({}).
IsControlDict ==
    Received /\ Msg.type = "control" /\ Msg.data # NoneVal

\* The worker-originated rule: simulation/closedown with a live key.
IsKeyedClosedown == IsControl("simulation", "closedown") /\ KeyLive

\* What the viewer-originated branch does with the message: the click is
\* echoed to the sender, the start is submitted, the stop is forwarded to
\* the attached worker.
ViewerBranchTaken ==
    /\ IsClick =>
          (Len(effects) = 1 /\ effects[1].kind = "emit"
              /\ effects[1].room = last.sid)
    /\ IsControl("simulation", "start") =>
          (Len(effects) = 1 /\ effects[1].kind = "task"
              /\ effects[1].key = last.sid)
    /\ (IsControl("simulation", "stop") /\ pre[last.sid].simulation # NoId) =>
          (Len(effects) = 1 /\ effects[1].kind = "emit"
              /\ effects[1].room = pre[last.sid].simulation)

MatchesRule1 == Msg.type \in {"data", "metadata"} /\ KeyLive
MatchesRule2 == IsKeyedClosedown
MatchesRule3 ==
    /\ Msg.type = "control"
    /\ SenderIsViewer
    /\ \/ IsControl("mouse", "click")
       \/ IsControl("simulation", "start")
       \/ IsControl("simulation", "stop") /\ pre[last.sid].simulation # NoId

(* C10: every message that matches none of the routing rules is silently   *)
(* dropped: nothing is sent, no task is submitted, nobody is disconnected, *)
(* the session table is unchanged and nothing is raised.                   *)
C10_UnmatchedSilentlyDropped ==
    (Received /\ ~MatchesRule1 /\ ~MatchesRule2 /\ ~MatchesRule3)
    => SilentlyDropped

-----------------------------------------------------------------------------
\* The emits among the effects of the handler just run.
Emits == {i \in 1..Len(effects) : effects[i].kind = "emit"}

(* C11: disconnect(c) removes the session keyed c when there is one and    *)
(* changes nothing else: every other session keeps its host and its        *)
(* worker, nothing is sent to anybody, and with no session keyed c the     *)
(* session table is left as it was.                                        *)
C11_DisconnectRemovesOnlyOwnSession ==
    Disconnected =>
       /\ DOMAIN sessions = DOMAIN pre \ {last.sid}
       /\ \A k \in DOMAIN sessions : sessions[k] = pre[k]
       /\ effects = <<>>
       /\ err = "none"
       /\ open = preOpen \ {last.sid}
       /\ last.sid \notin DOMAIN pre => StoreUnchanged

\* A viewer with an attached worker disconnected while a session of another
\* viewer, whose recorded worker is the disconnecting id, stays as it was.
C11_Witness ==
    /\ Disconnected
    /\ last.sid \in DOMAIN pre
    /\ pre[last.sid].simulation # NoId
    /\ \E k \in DOMAIN sessions : sessions[k].simulation = last.sid
    /\ effects = <<>>

(* C12: every outbound message has one explicit recipient, never none: it  *)
(* is the id of a connection, and it is the key of a session that was live *)
(* when the message arrived or the worker recorded in the sender's         *)
(* session.                                                                *)
C12_SingleExplicitRecipient ==
    \A i \in Emits :
       /\ effects[i].room \in Ids
       /\ \/ effects[i].room \in DOMAIN pre
          \/ /\ SenderIsViewer
             /\ effects[i].room = pre[last.sid].simulation

\* A stop went to a recorded worker that is not itself a session key.
C12_Witness ==
    /\ Emits # {}
    /\ \E i \in Emits : effects[i].room \notin DOMAIN pre

(* C14: the closedown handshake cleans up the worker attachment: once a    *)
(* control/simulation/closedown from the worker recorded in the session    *)
(* keyed V is handled, that session records no worker.                     *)
C14_ClosedownDetachesWorker ==
    ( /\ IsControl("simulation", "closedown")
      /\ KeyLive
      /\ pre[Msg.key].simulation = last.sid
      /\ Msg.key \in DOMAIN sessions )
    => sessions[Msg.key].simulation = NoId

(* C15 as claimed: once a viewer's control/simulation/stop is handled, the *)
(* worker recorded in that viewer's session is cleared.                    *)
C15_StopClearsWorker ==
    (IsControl("simulation", "stop") /\ SenderIsViewer)
    => sessions[last.sid].simulation = NoId

(* C15 as amended: a viewer's control/simulation/stop never changes a      *)
(* session: the worker recorded in the viewer's session before the stop    *)
(* is still recorded after it, whether or not the stop was forwarded.      *)
C15_StopKeepsWorker ==
    (IsControl("simulation", "stop") /\ SenderIsViewer)
    => /\ last.sid \in DOMAIN sessions
       /\ sessions[last.sid].simulation = pre[last.sid].simulation
       /\ sessions[last.sid].host = pre[last.sid].host
       /\ DOMAIN sessions = DOMAIN pre

\* A stop was forwarded to the worker and the worker is still recorded.
C15_Witness ==
    /\ IsControl("simulation", "stop")
    /\ SenderIsViewer
    /\ Len(effects) = 1
    /\ sessions[last.sid].simulation = effects[1].room
    /\ sessions[last.sid].simulation # NoId

(* C16: the worker recorded in a session outlives the worker's connection. *)
(* Whatever event is handled, a session that recorded a worker and is      *)
(* still there records the same worker, unless the event is a worker       *)
(* connect with the session's key, which records the connecting id; and a  *)
(* session goes away only with the disconnect of its own key.  So the      *)
(* disconnect of an attached worker W leaves its session with worker W.    *)
C16_StaleWorkerPersists ==
    /\ \A v \in DOMAIN pre :
          IF v \in DOMAIN sessions
          THEN \/ sessions[v].simulation = pre[v].simulation
               \/ /\ WorkerConnect
                  /\ last.key = v
                  /\ sessions[v].simulation = last.sid
          ELSE /\ last.sid = v
               /\ Disconnected \/ (Received /\ ForcedDisconnect(effects))
    /\ Disconnected =>
          \A v \in DOMAIN pre \ {last.sid} :
             pre[v].simulation = last.sid =>
                (v \in DOMAIN sessions /\ sessions[v] = pre[v])

\* An attached worker disconnected with no closedown and its session still
\* records it.
C16_Witness ==
    /\ Disconnected
    /\ last.sid \notin DOMAIN pre
    /\ \E v \in DOMAIN sessions :
          /\ pre[v].simulation = last.sid
          /\ sessions[v].simulation = last.sid
          /\ last.sid \notin open

C19_ViewerAndWorkerIdsDisjoint ==
    /\ \A v \in DOMAIN sessions : sessions[v].simulation \notin DOMAIN sessions
    /\ (IsControl("simulation", "stop") /\ SenderIsViewer)
       => \A i \in Emits : effects[i].room \notin DOMAIN pre

(* C20: every outbound message is addressed to a connection that is open   *)
(* when it is sent.                                                        *)
C20_RecipientsOpen ==
    \A i \in Emits : effects[i].room \in preOpen

(* C13: a connect with an origin marker for an id that has a session is a  *)
(* no-op: the session keeps its host and its recorded worker, no session   *)
(* is added and nothing is raised.                                         *)
C13_ReconnectKeepsSession ==
    (Connected /\ last.origin /\ last.sid \in DOMAIN pre)
    => /\ DOMAIN sessions = DOMAIN pre
       /\ \A k \in DOMAIN pre : sessions[k] = pre[k]
       /\ err = "none"

\* The id of a session with a recorded worker connected again, with an
\* origin marker and another host, and the session is as it was.
C13_Witness ==
    /\ Connected
    /\ last.origin
    /\ last.sid \in DOMAIN pre
    /\ pre[last.sid].simulation # NoId
    /\ pre[last.sid].host # "http://" \o last.host
    /\ sessions[last.sid] = pre[last.sid]

-----------------------------------------------------------------------------
(* C17 *)

\* The handler of an event has just run as a whole.
HandledWhole == last.kind \in {"connect", "disconnect", "msg"}

\* The msg handler has just been suspended before its forced disconnect.
Suspending == last.kind = "suspend"

\* A suspended msg handler has just gone on with its forced disconnect.
Resumed == last.kind = "resume"

\* C17 as stated: every event is handled to completion before the next
\* event is processed, so that when a handler has run no other handler is
\* still waiting between its 'stopped' send and its forced disconnect.
C17_HandledToCompletion ==
    HandledWhole => Pending(suspended) = 0

\* C17: a handler runs without interruption from one await to the next.
\* connect and disconnect send nothing and are never suspended.  The
\* closedown path of msg is two steps: the first looks the key up and sends
\* 'stopped' to it, changing neither the session table nor the connections;
\* handlers of other events may run before the second, which disconnects
\* the sender's id if it is a connection then, exactly as a disconnect
\* event would, and does nothing if it is not.  Nothing else disconnects by
\* force.
C17_AtomicBetweenAwaits ==
    /\ Connected \/ Disconnected => effects = <<>>
    /\ Suspending =>
          /\ Msg.type = "control"
          /\ Msg.data = ControlDict("simulation", "closedown", Missing)
          /\ KeyLive
          /\ effects = << [kind |-> "emit", room |-> Msg.key,
                           type |-> "control", data |-> StoppedNotice] >>
          /\ StoreUnchanged
          /\ open = preOpen
          /\ last.sid \in open
    /\ Resumed =>
          IF last.sid \in preOpen
          THEN /\ effects = <<[kind |-> "disconnect", sid |-> last.sid]>>
               /\ open = preOpen \ {last.sid}
               /\ sessions = Removed(pre, last.sid)
          ELSE /\ effects = <<>>
               /\ StoreUnchanged
               /\ open = preOpen
    /\ ForcedDisconnect(effects) => Resumed \/ (Received /\ IsKeyedClosedown)

\* The worker has gone by itself while its closedown was suspended: the
\* handler resumes after the disconnect event and has nothing to close.
C17_Witness ==
    /\ Resumed
    /\ last.sid \notin preOpen
    /\ effects = <<>>

====
